---- MODULE Spec2Model ----
(***************************************************************************)
(* Model of streamlit_db_converter.py: the relational-to-MongoDB converter. *)
(* The Streamlit session state (connection handles, selected tables,       *)
(* migration log), the two connect handlers, the "Start Migration" handler *)
(* of main() with its per-table loop, migrate_table() with its batch loop, *)
(* and the pure type mapper convert_sql_to_mongo_type().                   *)
(***************************************************************************)
EXTENDS Integers, Sequences, FiniteSets, TLC

VARIABLES
    \* st.session_state (lines 24-31)
    source_engine, mongo_client, selected_tables, migration_log,
    \* position of the script: "idle" between UI events, else inside the
    \* "Start Migration" handler (lines 338-387)
    pc,
    \* locals of the "Start Migration" handler
    batch_size, t, success_count, failed_count, total_rows, result,
    \* locals of migrate_table
    records, i, progress_bar, status_text,
    \* the target MongoDB database: collection name -> documents
    target,
    \* history of the run, recorded for the properties only: whether the stored
    \* handles passed their probe; the tables migrate_table was called for; the
    \* rows each query returned (-1: it raised); the batches handed to
    \* insert_many and the progress updates of the current table; the log when
    \* the run began; the current collection when its migration began
    source_probed, mongo_probed, attempted, fetched, insert_calls,
    progress_log, log_at_start, target_at_load,
    \* the column preview (lines 311-319)
    sql_type, mongo_type

vars == <<source_engine, mongo_client, selected_tables, migration_log, pc,
          batch_size, t, success_count, failed_count, total_rows, result,
          records, i, progress_bar, status_text, target,
          source_probed, mongo_probed, attempted, fetched, insert_calls,
          progress_log, log_at_start, target_at_load, sql_type, mongo_type>>

session_vars == <<source_engine, mongo_client, selected_tables, migration_log>>
handler_vars == <<batch_size, t, success_count, failed_count, total_rows, result>>
migrate_vars == <<records, i, progress_bar, status_text>>
probe_vars == <<source_probed, mongo_probed>>
history_vars == <<attempted, fetched, insert_calls, progress_log, log_at_start,
                  target_at_load>>
preview_vars == <<sql_type, mongo_type>>

----------------------------------------------------------------------------
\* Bounds of the model.

\* Largest number of rows a source query returns.
MaxRows == 3
\* Largest batch size (the UI offers 100..10000; the loop is scale-free).
MaxBatch == 2
\* Largest length of the migration log: no run starts that would exceed it.
MaxLog == 2
\* Largest number of fragments a column type signature is made of.
MaxTokens == 2

----------------------------------------------------------------------------
\* Values.

None == "None"

\* Python truthiness of an Optional[str]: None and "" are falsy.
Truthy(x) == x # None /\ x # ""

\* get_table_list(engine): the tables of the source database.
tables == <<"a", "b">>

DbTypes == {"MySQL", "PostgreSQL", "SQLite", "SQL Server"}

\* What connecting can do: succeed, or raise an exception whose str() is the
\* given text (possibly empty).
ProbeOutcomes == {"ok", "connection refused", ""}

Min(x, y) == IF x <= y THEN x ELSE y

Last(s) == s[Len(s)]

\* A slice that takes one element too many.
Slice_OffByOne(s, lo, hi) == SubSeq(s, lo + 1, Min(hi + 1, Len(s)))

\* Python slice s[lo:hi] of a list (0-based, hi exclusive, clipped to the list).
Slice(s, lo, hi) == SubSeq(s, lo + 1, Min(hi, Len(s)))

TableSet == {tables[n] : n \in 1..Len(tables)}

\* The selections the checkbox loop can produce: the sub-sequences of tables,
\* in the order of tables (lines 285-290).
RECURSIVE Filter(_, _)
Filter(s, keep) ==
    IF s = <<>> THEN <<>>
    ELSE (IF Head(s) \in keep THEN <<Head(s)>> ELSE <<>>) \o Filter(Tail(s), keep)

----------------------------------------------------------------------------
\* Connections (lines 34-72, 188-249).

\* create_sql_connection without the test connection of lines 49-51.
create_sql_connection_NoProbe(db_type, probe) ==
    IF db_type \notin DbTypes THEN <<None, "Unsupported database type">>
    ELSE <<"engine", None>>

\* Returns <<engine, error>>.  probe is the outcome of engine.connect().
create_sql_connection(db_type, probe) ==
    IF db_type \notin DbTypes THEN <<None, "Unsupported database type">>
    ELSE IF probe = "ok" THEN <<"engine", None>>
    ELSE <<None, probe>>

\* Returns <<client, error>>.  probe is the outcome of the admin ping.
create_mongo_connection(probe) ==
    IF probe = "ok" THEN <<"client", None>>
    ELSE <<None, probe>>

\* The "Connect to SQLite" / "Connect to Source DB" button.
ConnectSource ==
    /\ pc = "idle"
    /\ \E db_type \in DbTypes, fields_filled \in BOOLEAN, probe \in ProbeOutcomes :
         IF db_type # "SQLite" /\ ~fields_filled
         THEN UNCHANGED <<source_engine, source_probed>>
         ELSE LET r == create_sql_connection(db_type, probe) IN
              IF Truthy(r[2])
              THEN UNCHANGED <<source_engine, source_probed>>
              ELSE /\ source_engine' = r[1]
                   /\ source_probed' = (probe = "ok")
    /\ UNCHANGED <<mongo_client, mongo_probed, selected_tables, migration_log, pc,
                   handler_vars, migrate_vars, target, history_vars, preview_vars>>

\* The "Connect to MongoDB" button.
ConnectMongo ==
    /\ pc = "idle"
    /\ \E name_filled \in BOOLEAN, probe \in ProbeOutcomes :
         IF ~name_filled
         THEN UNCHANGED <<mongo_client, mongo_probed>>
         ELSE LET r == create_mongo_connection(probe) IN
              IF Truthy(r[2])
              THEN UNCHANGED <<mongo_client, mongo_probed>>
              ELSE /\ mongo_client' = r[1]
                   /\ mongo_probed' = (probe = "ok")
    /\ UNCHANGED <<source_engine, source_probed, selected_tables, migration_log, pc,
                   handler_vars, migrate_vars, target, history_vars, preview_vars>>

\* The early returns of the main content area (lines 252-258).
HandlesConnected == source_engine # None /\ mongo_client # None

\* The table checkboxes, "Select All", "Deselect All", "Clear Selection".
SelectTables ==
    /\ pc = "idle"
    /\ HandlesConnected
    /\ \E keep \in SUBSET TableSet : selected_tables' = Filter(tables, keep)
    /\ UNCHANGED <<source_engine, mongo_client, migration_log, pc, handler_vars,
                   migrate_vars, target, probe_vars, history_vars, preview_vars>>

----------------------------------------------------------------------------
\* The source rows and their conversion to documents (lines 123-149).

\* The kinds of value a fetched cell can hold.
RawValues == <<"numpy.int64", "NaN", "Timestamp", "str">>

\* Row j of a query result: its position in query order and one cell.
SourceRow(j) == [id |-> j, value |-> RawValues[((j - 1) % Len(RawValues)) + 1]]

\* rows = result.fetchall() for a query that returns n rows.
FetchAll(n) == [j \in 1..n |-> SourceRow(j)]

\* The per-value conversion of lines 143-148.
ConvertValue(value) ==
    IF value = "NaN" THEN None
    ELSE IF value = "Timestamp" THEN value
    ELSE IF value = "numpy.int64" THEN "int"
    ELSE value

\* records = df.to_dict('records') followed by the conversion loop.
ToRecords(rows) ==
    [j \in 1..Len(rows) |-> [id |-> rows[j].id, value |-> ConvertValue(rows[j].value)]]

----------------------------------------------------------------------------
\* The "Start Migration" handler (lines 338-387) and migrate_table (116-170).

NoResult == [success |-> FALSE, message |-> None, rows |-> 0]

\* The progress without the min.
Progress_NoMin(idx, size, total) == <<idx + size, total>>

\* min((i + batch_size) / total_rows, 1.0) as a fraction <<numerator, denominator>>.
Progress(idx, size, total) ==
    IF idx + size >= total THEN <<1, 1>> ELSE <<idx + size, total>>

\* f"Migrated {min(i + batch_size, total_rows)}/{total_rows} rows"
StatusText(idx, size, total) ==
    "Migrated " \o ToString(Min(idx + size, total)) \o "/" \o ToString(total) \o " rows"

\* The button: both handles present, a table list, a selection (lines 252-267, 334-345).
StartMigration ==
    /\ pc = "idle"
    /\ HandlesConnected
    /\ tables # <<>>
    /\ selected_tables # <<>>
    /\ Len(migration_log) + Len(selected_tables) <= MaxLog
    /\ \E size \in 1..MaxBatch : batch_size' = size
    /\ success_count' = 0
    /\ failed_count' = 0
    /\ total_rows' = 0
    /\ t' = 1
    /\ pc' = "for"
    /\ attempted' = <<>>
    /\ fetched' = <<>>
    /\ log_at_start' = migration_log
    /\ UNCHANGED <<session_vars, result, migrate_vars, target, probe_vars,
                   insert_calls, progress_log, target_at_load, preview_vars>>

\* for table in selected_tables: the next table, migrate_table is called (347-355).
ForNextTable ==
    /\ pc = "for"
    /\ t <= Len(selected_tables)
    /\ pc' = "migrate"
    /\ attempted' = Append(attempted, selected_tables[t])
    /\ records' = <<>>
    /\ i' = 0
    /\ progress_bar' = None
    /\ status_text' = None
    /\ insert_calls' = <<>>
    /\ progress_log' = <<>>
    /\ target_at_load' = target[selected_tables[t]]
    /\ UNCHANGED <<session_vars, handler_vars, target, probe_vars, fetched,
                   log_at_start, preview_vars>>

\* The reflection, the query or the conversion raises (lines 118-149, 169-170).
LoadFails ==
    /\ pc = "migrate"
    /\ result' = [success |-> FALSE, message |-> "Error: read failed", rows |-> 0]
    /\ fetched' = Append(fetched, -1)
    /\ pc' = "log"
    /\ UNCHANGED <<session_vars, batch_size, t, success_count, failed_count,
                   total_rows, migrate_vars, target, probe_vars, attempted,
                   insert_calls, progress_log, log_at_start, target_at_load,
                   preview_vars>>

\* migrate_table without the early return of lines 130-131: the empty list
\* goes through the batch loop.
LoadEmpty_NoShortCircuit ==
    /\ pc = "migrate"
    /\ LET rows == FetchAll(0) IN
         /\ records' = ToRecords(rows)
         /\ fetched' = Append(fetched, Len(rows))
    /\ i' = 0
    /\ progress_bar' = <<0, 1>>
    /\ status_text' = ""
    /\ pc' = "batch"
    /\ UNCHANGED <<session_vars, handler_vars, target, probe_vars, attempted,
                   insert_calls, progress_log, log_at_start, target_at_load,
                   preview_vars>>

\* The query returns no row (lines 128-131).
LoadEmpty ==
    /\ pc = "migrate"
    /\ LET rows == FetchAll(0) IN
         /\ Len(rows) = 0
         /\ result' = [success |-> TRUE, message |-> "Table is empty", rows |-> 0]
         /\ fetched' = Append(fetched, Len(rows))
    /\ pc' = "log"
    /\ UNCHANGED <<session_vars, batch_size, t, success_count, failed_count,
                   total_rows, migrate_vars, target, probe_vars, attempted,
                   insert_calls, progress_log, log_at_start, target_at_load,
                   preview_vars>>

\* The query returns rows; they become records; the progress bar is created
\* (lines 128-154).
LoadRows ==
    /\ pc = "migrate"
    /\ \E n \in 1..MaxRows :
         LET rows == FetchAll(n) IN
         /\ Len(rows) # 0
         /\ records' = ToRecords(rows)
         /\ fetched' = Append(fetched, Len(rows))
    /\ i' = 0
    /\ progress_bar' = <<0, 1>>
    /\ status_text' = ""
    /\ pc' = "batch"
    /\ UNCHANGED <<session_vars, handler_vars, target, probe_vars, attempted,
                   insert_calls, progress_log, log_at_start, target_at_load,
                   preview_vars>>

\* One iteration of the batch loop up to insert_many, which succeeds (156-158).
InsertBatch ==
    /\ pc = "batch"
    /\ i < Len(records)
    /\ LET batch == Slice(records, i, i + batch_size)
           collection == selected_tables[t] IN
         /\ target' = [target EXCEPT ![collection] = @ \o batch]
         /\ insert_calls' = Append(insert_calls, batch)
    /\ pc' = "progress"
    /\ UNCHANGED <<session_vars, handler_vars, migrate_vars, probe_vars, attempted,
                   fetched, progress_log, log_at_start, target_at_load, preview_vars>>

\* migrate_table without the except clause of lines 169-170: the exception
\* of insert_many ends the script run.
InsertFails_Uncaught ==
    /\ pc = "batch"
    /\ i < Len(records)
    /\ LET batch == Slice(records, i, i + batch_size)
           collection == selected_tables[t] IN
         /\ \E stored \in 0..(Len(batch) - 1) :
              target' = [target EXCEPT ![collection] = @ \o SubSeq(batch, 1, stored)]
         /\ insert_calls' = Append(insert_calls, batch)
    /\ pc' = "idle"
    /\ UNCHANGED <<session_vars, handler_vars, migrate_vars, probe_vars, attempted,
                   fetched, progress_log, log_at_start, target_at_load, preview_vars>>

\* An except clause that deletes what the table's earlier batches stored.
InsertFails_Rollback ==
    /\ pc = "batch"
    /\ i < Len(records)
    /\ LET batch == Slice(records, i, i + batch_size)
           collection == selected_tables[t] IN
         /\ target' = [target EXCEPT ![collection] = target_at_load]
         /\ insert_calls' = Append(insert_calls, batch)
    /\ result' = [success |-> FALSE, message |-> "Error: write failed", rows |-> 0]
    /\ pc' = "log"
    /\ UNCHANGED <<session_vars, batch_size, t, success_count, failed_count,
                   total_rows, migrate_vars, probe_vars, attempted, fetched,
                   progress_log, log_at_start, target_at_load, preview_vars>>

\* insert_many raises: an ordered bulk insert stops at the first failing
\* document, so any proper prefix of the batch may already be stored
\* (lines 158, 169-170).
InsertFails ==
    /\ pc = "batch"
    /\ i < Len(records)
    /\ LET batch == Slice(records, i, i + batch_size)
           collection == selected_tables[t] IN
         /\ \E stored \in 0..(Len(batch) - 1) :
              target' = [target EXCEPT ![collection] = @ \o SubSeq(batch, 1, stored)]
         /\ insert_calls' = Append(insert_calls, batch)
    /\ result' = [success |-> FALSE, message |-> "Error: write failed", rows |-> 0]
    /\ pc' = "log"
    /\ UNCHANGED <<session_vars, batch_size, t, success_count, failed_count,
                   total_rows, migrate_vars, probe_vars, attempted, fetched,
                   progress_log, log_at_start, target_at_load, preview_vars>>

\* The progress update after a batch, and the loop variable's step (156, 160-162).
ReportProgress ==
    /\ pc = "progress"
    /\ LET total == Len(records) IN
         /\ progress_bar' = Progress(i, batch_size, total)
         /\ status_text' = StatusText(i, batch_size, total)
         /\ progress_log' = Append(progress_log,
                [progress |-> Progress(i, batch_size, total),
                 processed |-> Min(i + batch_size, total),
                 total |-> total])
    /\ i' = i + batch_size
    /\ pc' = "batch"
    /\ UNCHANGED <<session_vars, handler_vars, records, target, probe_vars,
                   attempted, fetched, insert_calls, log_at_start, target_at_load,
                   preview_vars>>

\* The range is exhausted: the widgets are cleared, the table succeeded (164-167).
LoopEnd ==
    /\ pc = "batch"
    /\ i >= Len(records)
    /\ progress_bar' = None
    /\ status_text' = None
    /\ LET total == Len(records) IN
         result' = [success |-> TRUE,
                    message |-> "Successfully migrated " \o ToString(total) \o " rows",
                    rows |-> total]
    /\ pc' = "log"
    /\ UNCHANGED <<session_vars, batch_size, t, success_count, failed_count,
                   total_rows, records, i, target, probe_vars, history_vars,
                   preview_vars>>

\* The entry main appends for the table (lines 366-372; the timestamp is left out).
LogEntry(table, res) ==
    [table |-> table,
     status |-> IF res.success THEN "Success" ELSE "Failed",
     rows |-> res.rows,
     message |-> res.message]

\* The log written with insert(0, ...) in place of append.
LogTable_Prepend ==
    /\ pc = "log"
    /\ IF result.success
       THEN /\ success_count' = success_count + 1
            /\ total_rows' = total_rows + result.rows
            /\ UNCHANGED failed_count
       ELSE /\ failed_count' = failed_count + 1
            /\ UNCHANGED <<success_count, total_rows>>
    /\ migration_log' = <<LogEntry(selected_tables[t], result)>> \o migration_log
    /\ t' = t + 1
    /\ pc' = "for"
    /\ UNCHANGED <<source_engine, mongo_client, selected_tables, batch_size, result,
                   migrate_vars, target, probe_vars, history_vars, preview_vars>>

\* The counters without the test of success: every table counts as succeeded.
LogTable_CountsAll ==
    /\ pc = "log"
    /\ success_count' = success_count + 1
    /\ total_rows' = total_rows + result.rows
    /\ UNCHANGED failed_count
    /\ migration_log' = Append(migration_log, LogEntry(selected_tables[t], result))
    /\ t' = t + 1
    /\ pc' = "for"
    /\ UNCHANGED <<source_engine, mongo_client, selected_tables, batch_size, result,
                   migrate_vars, target, probe_vars, history_vars, preview_vars>>

\* migrate_table has returned: counters and the log (lines 357-372).
LogTable ==
    /\ pc = "log"
    /\ IF result.success
       THEN /\ success_count' = success_count + 1
            /\ total_rows' = total_rows + result.rows
            /\ UNCHANGED failed_count
       ELSE /\ failed_count' = failed_count + 1
            /\ UNCHANGED <<success_count, total_rows>>
    /\ migration_log' = Append(migration_log, LogEntry(selected_tables[t], result))
    /\ t' = t + 1
    /\ pc' = "for"
    /\ UNCHANGED <<source_engine, mongo_client, selected_tables, batch_size, result,
                   migrate_vars, target, probe_vars, history_vars, preview_vars>>

\* The loop over the tables is over: the summary is shown (lines 374-387).
Summary ==
    /\ pc = "for"
    /\ t > Len(selected_tables)
    /\ pc' = "summary"
    /\ UNCHANGED <<session_vars, handler_vars, migrate_vars, target, probe_vars,
                   history_vars, preview_vars>>

\* The script run ends; the handler's locals are gone (lines 389-409).
EndRun ==
    /\ pc = "summary"
    /\ pc' = "idle"
    /\ batch_size' = 0
    /\ t' = 0
    /\ success_count' = 0
    /\ failed_count' = 0
    /\ total_rows' = 0
    /\ result' = NoResult
    /\ records' = <<>>
    /\ i' = 0
    /\ progress_bar' = None
    /\ status_text' = None
    /\ attempted' = <<>>
    /\ fetched' = <<>>
    /\ insert_calls' = <<>>
    /\ progress_log' = <<>>
    /\ log_at_start' = <<>>
    /\ target_at_load' = <<>>
    /\ UNCHANGED <<session_vars, target, probe_vars, preview_vars>>

----------------------------------------------------------------------------
\* The type mapper (lines 96-113).  A type signature is a sequence of characters.

UpperAlpha == <<"A","B","C","D","E","F","G","H","I","J","K","L","M",
                "N","O","P","Q","R","S","T","U","V","W","X","Y","Z">>
LowerAlpha == <<"a","b","c","d","e","f","g","h","i","j","k","l","m",
                "n","o","p","q","r","s","t","u","v","w","x","y","z">>

\* str.lower() on one character.
LowerChar(c) ==
    IF \E n \in 1..26 : UpperAlpha[n] = c
    THEN LowerAlpha[CHOOSE n \in 1..26 : UpperAlpha[n] = c]
    ELSE c

\* str(sql_type).lower()
Lower(str) == [n \in 1..Len(str) |-> LowerChar(str[n])]

UpperChar(c) ==
    IF \E n \in 1..26 : LowerAlpha[n] = c
    THEN UpperAlpha[CHOOSE n \in 1..26 : LowerAlpha[n] = c]
    ELSE c

\* Python's  sub in str.
Contains(sub, str) ==
    \E k \in 0..(Len(str) - Len(sub)) : SubSeq(str, k + 1, k + Len(sub)) = sub

\* The mapper with the date/time test moved in front of the int/serial test.
convert_sql_to_mongo_type_DateFirst(type) ==
    LET sql_type_lower == Lower(type) IN
    IF Contains(<<"d","a","t","e">>, sql_type_lower)
       \/ Contains(<<"t","i","m","e">>, sql_type_lower)
    THEN "datetime"
    ELSE IF Contains(<<"i","n","t">>, sql_type_lower)
            \/ Contains(<<"s","e","r","i","a","l">>, sql_type_lower)
    THEN "integer"
    ELSE IF Contains(<<"f","l","o","a","t">>, sql_type_lower)
            \/ Contains(<<"d","o","u","b","l","e">>, sql_type_lower)
            \/ Contains(<<"d","e","c","i","m","a","l">>, sql_type_lower)
            \/ Contains(<<"n","u","m","e","r","i","c">>, sql_type_lower)
    THEN "float"
    ELSE IF Contains(<<"b","o","o","l">>, sql_type_lower)
            \/ Contains(<<"b","i","t">>, sql_type_lower)
    THEN "boolean"
    ELSE IF Contains(<<"j","s","o","n">>, sql_type_lower)
    THEN "json"
    ELSE IF Contains(<<"b","l","o","b">>, sql_type_lower)
            \/ Contains(<<"b","i","n","a","r","y">>, sql_type_lower)
    THEN "binary"
    ELSE "string"

convert_sql_to_mongo_type(type) ==
    LET sql_type_lower == Lower(type) IN
    IF Contains(<<"i","n","t">>, sql_type_lower)
       \/ Contains(<<"s","e","r","i","a","l">>, sql_type_lower)
    THEN "integer"
    ELSE IF Contains(<<"f","l","o","a","t">>, sql_type_lower)
            \/ Contains(<<"d","o","u","b","l","e">>, sql_type_lower)
            \/ Contains(<<"d","e","c","i","m","a","l">>, sql_type_lower)
            \/ Contains(<<"n","u","m","e","r","i","c">>, sql_type_lower)
    THEN "float"
    ELSE IF Contains(<<"b","o","o","l">>, sql_type_lower)
            \/ Contains(<<"b","i","t">>, sql_type_lower)
    THEN "boolean"
    ELSE IF Contains(<<"d","a","t","e">>, sql_type_lower)
            \/ Contains(<<"t","i","m","e">>, sql_type_lower)
    THEN "datetime"
    ELSE IF Contains(<<"j","s","o","n">>, sql_type_lower)
    THEN "json"
    ELSE IF Contains(<<"b","l","o","b">>, sql_type_lower)
            \/ Contains(<<"b","i","n","a","r","y">>, sql_type_lower)
    THEN "binary"
    ELSE "string"

\* The words the mapper looks for.
Words ==
    { <<"i","n","t">>, <<"s","e","r","i","a","l">>, <<"f","l","o","a","t">>,
      <<"d","o","u","b","l","e">>, <<"d","e","c","i","m","a","l">>,
      <<"n","u","m","e","r","i","c">>, <<"b","o","o","l">>, <<"b","i","t">>,
      <<"d","a","t","e">>, <<"t","i","m","e">>, <<"j","s","o","n">>,
      <<"b","l","o","b">>, <<"b","i","n","a","r","y">> }

\* The fragments the column types of the model are made of: the words in lower
\* and in upper case, two of them capitalised, pieces of words, and text that
\* holds no word.
Tokens ==
    Words
    \cup { [n \in 1..Len(w) |-> UpperChar(w[n])] : w \in Words }
    \cup { <<"I","n","t">>, <<"D","a","t","e">> }
    \cup { <<"v","a","r","c","h","a","r">>, <<"(","1","0",")">>,
           <<"i","n">>, <<"t">>, <<"d","a">>, <<"T","E">> }

RECURSIVE Concatenations(_)
Concatenations(n) ==
    IF n = 0 THEN { <<>> }
    ELSE { a \o b : a \in Concatenations(n - 1), b \in Tokens }

\* The column types the inspector can report.
Signatures == UNION { Concatenations(n) : n \in 1..MaxTokens }

\* One row of the column preview: "MongoDB Type" of a column (line 315).
PreviewColumn ==
    /\ pc = "idle"
    /\ mongo_type = None
    /\ mongo_type' = convert_sql_to_mongo_type(sql_type)
    /\ UNCHANGED <<session_vars, pc, handler_vars, migrate_vars, target, probe_vars,
                   history_vars, sql_type>>

----------------------------------------------------------------------------
Init ==
    /\ source_engine = None
    /\ mongo_client = None
    /\ selected_tables = <<>>
    /\ migration_log = <<>>
    /\ pc = "idle"
    /\ batch_size = 0
    /\ t = 0
    /\ success_count = 0
    /\ failed_count = 0
    /\ total_rows = 0
    /\ result = NoResult
    /\ records = <<>>
    /\ i = 0
    /\ progress_bar = None
    /\ status_text = None
    /\ target = [c \in TableSet |-> <<>>]
    /\ source_probed = FALSE
    /\ mongo_probed = FALSE
    /\ attempted = <<>>
    /\ fetched = <<>>
    /\ insert_calls = <<>>
    /\ progress_log = <<>>
    /\ log_at_start = <<>>
    /\ target_at_load = <<>>
    /\ sql_type = <<>>
    /\ mongo_type = None

\* The steps of a run in progress.
RunStep ==
    \/ ForNextTable
    \/ LoadFails
    \/ LoadEmpty
    \/ LoadRows
    \/ InsertBatch
    \/ InsertFails
    \/ ReportProgress
    \/ LoopEnd
    \/ LogTable
    \/ Summary
    \/ EndRun

Next ==
    \/ ConnectSource
    \/ ConnectMongo
    \/ SelectTables
    \/ StartMigration
    \/ RunStep

Spec == Init /\ [][Next]_vars

\* The handler is straight-line code: once started it runs to its end.
FairSpec == Spec /\ WF_vars(RunStep)

\* The column preview alone, over every column type of the model.
InitPreview ==
    /\ source_engine = "engine"
    /\ mongo_client = "client"
    /\ selected_tables = tables
    /\ migration_log = <<>>
    /\ pc = "idle"
    /\ batch_size = 0
    /\ t = 0
    /\ success_count = 0
    /\ failed_count = 0
    /\ total_rows = 0
    /\ result = NoResult
    /\ records = <<>>
    /\ i = 0
    /\ progress_bar = None
    /\ status_text = None
    /\ target = [c \in TableSet |-> <<>>]
    /\ source_probed = TRUE
    /\ mongo_probed = TRUE
    /\ attempted = <<>>
    /\ fetched = <<>>
    /\ insert_calls = <<>>
    /\ progress_log = <<>>
    /\ log_at_start = <<>>
    /\ target_at_load = <<>>
    /\ sql_type \in Signatures
    /\ mongo_type = None

NextPreview == PreviewColumn

SpecPreview == InitPreview /\ [][NextPreview]_vars

----------------------------------------------------------------------------
\* Operators the properties are stated with.

IsPrefix(s, u) == Len(s) <= Len(u) /\ SubSeq(u, 1, Len(s)) = s

\* The rows of the first n batches.
RECURSIVE SumLen(_, _)
SumLen(calls, n) == IF n = 0 THEN 0 ELSE SumLen(calls, n - 1) + Len(calls[n])

\* The first n batches, one after the other.
RECURSIVE Flatten(_, _)
Flatten(calls, n) == IF n = 0 THEN <<>> ELSE Flatten(calls, n - 1) \o calls[n]

Ceil(n, d) == (n + d - 1) \div d

\* The entries the current run has appended.
RunEntries == SubSeq(migration_log, Len(log_at_start) + 1, Len(migration_log))

\* migrate_table has returned for the table before position t and its entry is
\* in the log.
TableLogged == pc = "for" /\ t > 1

\* The bulk insert of batch k >= 1 of the table just logged failed.
WriteFailedOnLogged == TableLogged /\ ~result.success /\ insert_calls # <<>>

----------------------------------------------------------------------------
\* C1: when the bulk insert of batch k of a table fails, the entry logged for
\* the table is Failed and its row count is the number of rows of the batches
\* 1..k-1 that were committed before.
C1_FailedRowsArePartialCount ==
    WriteFailedOnLogged =>
        /\ Last(migration_log).status = "Failed"
        /\ Last(migration_log).rows = SumLen(insert_calls, Len(insert_calls) - 1)

----------------------------------------------------------------------------
\* C2: a table that fails does not end the run: at the summary migrate_table
\* has been called for every selected table, in order, each has one entry that
\* is Success or Failed, and every run that has started reaches its summary.
C2_RunContinuesAfterFailure ==
    /\ [](pc = "summary" =>
            /\ attempted = selected_tables
            /\ Len(RunEntries) = Len(selected_tables)
            /\ \A k \in 1..Len(RunEntries) :
                 /\ RunEntries[k].table = selected_tables[k]
                 /\ RunEntries[k].status \in {"Success", "Failed"})
    /\ [](\A k \in 1..Len(RunEntries) :
            (RunEntries[k].status = "Failed" /\ k < Len(selected_tables)
             /\ pc \in {"log", "summary"})
                => Len(attempted) > k)
    /\ (pc # "idle") ~> (pc = "summary")

\* A run of two tables whose first table failed and whose second succeeded.
C2_Witness ==
    /\ pc = "summary"
    /\ Len(selected_tables) = 2
    /\ Len(RunEntries) = 2
    /\ RunEntries[1].status = "Failed"
    /\ RunEntries[2].status = "Success"
    /\ RunEntries[2].rows > 0

----------------------------------------------------------------------------
\* C3: a table whose query returns no row is logged as Success with 0 rows and
\* the message "Table is empty", and no bulk insert is issued for it: its
\* collection is as it was.
C3_EmptyTable ==
    (TableLogged /\ Last(fetched) = 0) =>
        /\ Last(migration_log).table = Last(attempted)
        /\ Last(migration_log).status = "Success"
        /\ Last(migration_log).rows = 0
        /\ Last(migration_log).message = "Table is empty"
        /\ insert_calls = <<>>
        /\ progress_log = <<>>
        /\ target[Last(attempted)] = target_at_load

\* An empty table has been migrated and logged.
C3_Witness ==
    /\ TableLogged
    /\ Last(fetched) = 0
    /\ Last(migration_log).message = "Table is empty"

----------------------------------------------------------------------------
\* C4: a table of N >= 1 rows migrated with batch size B and no failing write
\* gets exactly ceil(N/B) bulk inserts, each of 1..B records and all but the
\* last of B, and the batches in issue order are the N source rows, converted,
\* each once and in query order; they are what the collection gained, and the
\* entry is Success with N rows.
C4_Batches ==
    (TableLogged /\ Last(fetched) >= 1 /\ result.success) =>
        LET n == Last(fetched)
            m == Len(insert_calls) IN
        /\ m = Ceil(n, batch_size)
        /\ \A k \in 1..m :
             /\ Len(insert_calls[k]) >= 1
             /\ Len(insert_calls[k]) <= batch_size
             /\ k < m => Len(insert_calls[k]) = batch_size
        /\ Len(Flatten(insert_calls, m)) = n
        /\ \A j \in 1..n :
             /\ Flatten(insert_calls, m)[j].id = j
             /\ Flatten(insert_calls, m)[j].value = ConvertValue(SourceRow(j).value)
        /\ target[Last(attempted)] = target_at_load \o Flatten(insert_calls, m)
        /\ Last(migration_log).status = "Success"
        /\ Last(migration_log).rows = n

\* Three rows in batches of two: two bulk inserts, of 2 and 1 records, a
\* Success entry of 3 rows.
C4_Witness ==
    /\ TableLogged
    /\ Last(fetched) = 3
    /\ batch_size = 2
    /\ result.success
    /\ Len(insert_calls) = 2
    /\ Len(insert_calls[1]) = 2
    /\ Len(insert_calls[2]) = 1
    /\ Last(migration_log).status = "Success"
    /\ Last(migration_log).rows = 3

----------------------------------------------------------------------------
\* C5: the log only grows at its end, and a run over the selected tables T
\* leaves the log as it was before the run followed by |T| entries whose
\* tables are T in order.
C5_LogAppendOnly ==
    /\ [][IsPrefix(migration_log, migration_log')
          /\ Len(migration_log') <= Len(migration_log) + 1]_vars
    /\ [](pc = "summary" =>
            /\ IsPrefix(log_at_start, migration_log)
            /\ Len(migration_log) = Len(log_at_start) + Len(selected_tables)
            /\ \A k \in 1..Len(selected_tables) :
                 migration_log[Len(log_at_start) + k].table = selected_tables[k])

\* The summary of a run that began with a log that was not empty, after a table
\* that failed.
C5_Witness ==
    /\ pc = "summary"
    /\ log_at_start # <<>>
    /\ Len(migration_log) > Len(log_at_start)
    /\ Last(migration_log).status = "Failed"

----------------------------------------------------------------------------
\* The rows the queries of the run's first n tables returned, the succeeded
\* tables only.
RECURSIVE SuccessRows(_)
SuccessRows(n) ==
    IF n = 0 THEN 0
    ELSE SuccessRows(n - 1)
         + (IF RunEntries[n].status = "Success" THEN fetched[n] ELSE 0)

\* C6: at the summary the number of succeeded tables is the number of Success
\* entries of the run, the number of failed tables the number of Failed ones,
\* the two add up to the number of selected tables, and the total of rows is the
\* sum of the rows the queries of the succeeded tables returned.
C6_Summary ==
    pc = "summary" =>
        /\ success_count =
             Cardinality({k \in 1..Len(RunEntries) : RunEntries[k].status = "Success"})
        /\ failed_count =
             Cardinality({k \in 1..Len(RunEntries) : RunEntries[k].status = "Failed"})
        /\ success_count + failed_count = Len(selected_tables)
        /\ total_rows = SuccessRows(Len(RunEntries))

\* Tables [a, b]: a succeeds with rows, b fails on its only batch.
C6_Witness ==
    /\ pc = "summary"
    /\ selected_tables = <<"a", "b">>
    /\ RunEntries[1].status = "Success"
    /\ fetched[1] >= 1
    /\ RunEntries[2].status = "Failed"
    /\ Len(insert_calls) = 1
    /\ success_count = 1
    /\ failed_count = 1
    /\ total_rows = fetched[1]

----------------------------------------------------------------------------
\* C7: a run is in progress only with both handles stored, and a stored handle
\* is one whose connect call passed its probe and returned no error.
C7_ValidatedHandles ==
    /\ pc # "idle" => (source_engine # None /\ mongo_client # None)
    /\ source_engine # None => source_probed
    /\ mongo_client # None => mongo_probed

\* A bulk insert is about to be issued.
C7_Witness ==
    /\ pc = "batch"
    /\ i < Len(records)
    /\ source_engine = "engine"
    /\ mongo_client = "client"

----------------------------------------------------------------------------
\* The mapper's rules as a table, and what "the first rule that matches" means.
SemanticTypes == {"integer", "float", "boolean", "datetime", "json", "binary", "string"}

Rules ==
    << [tag |-> "integer", words |-> { <<"i","n","t">>, <<"s","e","r","i","a","l">> }],
       [tag |-> "float", words |-> { <<"f","l","o","a","t">>, <<"d","o","u","b","l","e">>,
                                     <<"d","e","c","i","m","a","l">>,
                                     <<"n","u","m","e","r","i","c">> }],
       [tag |-> "boolean", words |-> { <<"b","o","o","l">>, <<"b","i","t">> }],
       [tag |-> "datetime", words |-> { <<"d","a","t","e">>, <<"t","i","m","e">> }],
       [tag |-> "json", words |-> { <<"j","s","o","n">> }],
       [tag |-> "binary", words |-> { <<"b","l","o","b">>, <<"b","i","n","a","r","y">> }] >>

SameLetter(c, d) ==
    c = d \/ \E n \in 1..26 : {c, d} = {UpperAlpha[n], LowerAlpha[n]}

OccursAnyCase(word, str) ==
    \E k \in 0..(Len(str) - Len(word)) :
        \A j \in 1..Len(word) : SameLetter(str[k + j], word[j])

RuleMatches(r, str) == \E w \in Rules[r].words : OccursAnyCase(w, str)

FirstRuleTag(str) ==
    IF \E r \in 1..Len(Rules) : RuleMatches(r, str)
    THEN LET first == CHOOSE r \in 1..Len(Rules) :
                        /\ RuleMatches(r, str)
                        /\ \A q \in 1..(r - 1) : ~RuleMatches(q, str)
         IN Rules[first].tag
    ELSE "string"

\* C8: the mapper is total and its result is the tag of the first rule, in the
\* order integer, float, boolean, datetime, json, binary, one of whose words
\* occurs in the signature whatever the case of its letters, and string when
\* no word occurs; a signature with both "int" and "date" maps to integer.
C8_FirstRuleWins ==
    mongo_type # None =>
        /\ mongo_type \in SemanticTypes
        /\ mongo_type = FirstRuleTag(sql_type)
        /\ (OccursAnyCase(<<"i","n","t">>, sql_type)
            /\ OccursAnyCase(<<"d","a","t","e">>, sql_type)) => mongo_type = "integer"

\* A signature with "date" and "int" in it, in mixed case, mapped to integer.
C8_Witness ==
    /\ mongo_type = "integer"
    /\ sql_type = <<"D","a","t","e","I","N","T">>

----------------------------------------------------------------------------
\* C9: no step removes a document from the target: every collection only grows
\* at its end; when the bulk insert of batch k fails, the records of the
\* batches 1..k-1 are in the table's collection after what it held before, and
\* the Failed entry counts no row of the failed batch.
C9_NoRollback ==
    /\ [][\A c \in TableSet : IsPrefix(target[c], target'[c])]_vars
    /\ [](WriteFailedOnLogged =>
            LET k == Len(insert_calls) IN
            /\ IsPrefix(target_at_load \o Flatten(insert_calls, k - 1),
                        target[Last(attempted)])
            /\ Last(migration_log).table = Last(attempted)
            /\ Last(migration_log).status = "Failed"
            /\ Last(migration_log).rows <= SumLen(insert_calls, k - 1))

\* The second or a later batch failed; the earlier ones are in the collection.
C9_Witness ==
    /\ WriteFailedOnLogged
    /\ Len(insert_calls) >= 2
    /\ Len(target[Last(attempted)]) > Len(target_at_load)

----------------------------------------------------------------------------
\* Fractions <<numerator, denominator>> compared by cross-multiplication.
FracEq(a, b) == a[1] * b[2] = b[1] * a[2]
FracLess(a, b) == a[1] * b[2] < b[1] * a[2]

\* C10: within one table migration there is one progress update per written
\* batch, after the write and never before it; the rows reported grow from
\* update to update, never exceed the total, are the rows written so far, the
\* fraction shown is their share of the total, and after the last batch of a
\* table that succeeds they are the total.
C10_Progress ==
    records # <<>> =>
        LET total == Len(records)
            written == SumLen(insert_calls, Len(insert_calls)) IN
        /\ pc = "batch" =>
             /\ Len(progress_log) = Len(insert_calls)
             /\ FracEq(progress_bar, <<written, total>>)
             /\ progress_log # <<>> =>
                  status_text = "Migrated " \o ToString(written) \o "/"
                                \o ToString(total) \o " rows"
        /\ pc = "progress" => Len(progress_log) = Len(insert_calls) - 1
        /\ Len(progress_log) <= Len(insert_calls)
        /\ \A k \in 1..Len(progress_log) :
             /\ progress_log[k].total = total
             /\ progress_log[k].processed = SumLen(insert_calls, k)
             /\ progress_log[k].processed <= total
             /\ FracEq(progress_log[k].progress, <<progress_log[k].processed, total>>)
             /\ ~FracLess(<<1, 1>>, progress_log[k].progress)
             /\ k > 1 =>
                  /\ progress_log[k - 1].processed < progress_log[k].processed
                  /\ FracLess(progress_log[k - 1].progress, progress_log[k].progress)
        /\ (pc = "log" /\ result.success) =>
             /\ Len(progress_log) = Len(insert_calls)
             /\ Last(progress_log).processed = total
             /\ FracEq(Last(progress_log).progress, <<1, 1>>)

\* A table that succeeded in several batches, the last one short.
C10_Witness ==
    /\ pc = "log"
    /\ result.success
    /\ Len(progress_log) >= 2
    /\ Len(records) % batch_size # 0

====
